---- MODULE Spec2Model ----
(***************************************************************************)
(* Model of the heatwave extraction of code/cppv.py (create_cpv) together  *)
(* with the connectors and selectors of con_sep.py and the columns that    *)
(* Heatwave_Detection.py attaches to the extreme dataset (g_id, itime).    *)
(*                                                                         *)
(* The nodes table g.v is a sequence of rows; the edge table g.e is a set  *)
(* of (source position, target position) pairs; the supernode table cpv is *)
(* a function from component label to summary row.  Dates are day numbers. *)
(***************************************************************************)
EXTENDS Integers, Sequences, FiniteSets, TLC

\* ------------------------------------------------------------- bounds ----
MaxX == 2          \* grid columns are 0..MaxX
MaxY == 2          \* grid rows are 0..MaxY
MaxDay == 3        \* calendar days are 1..MaxDay
MaxRecs == 3       \* at most this many extreme records in the input
MaxMag == 1        \* magnitudes are 0..MaxMag
MaxB == 1          \* the spatial threshold b is 0..MaxB
MaxCap == 2        \* the caps on pairs per batch that are tried are 1..MaxCap

\* ---------------------------------------------------------- constants ----
Uint16 == 65536    \* itime is stored as np.uint16
FtThreshold == 1   \* ft_feature=('itime', 1)
NbrRadius == 1     \* dxa <= 1, dya <= 1
MinDuration == 1   \* pd.Timedelta(days=1)
MaxPairsDefault == 10000000   \* max_pairs=1e7

VARIABLES
    pc,          \* the statement of create_cpv that runs next
    b,           \* argument b of create_cpv
    extr_data,   \* argument extr_data: the extreme records, as passed in
    v,           \* g.v, the nodes table, a sequence of rows
    from_pos,    \* create_edges_ft: number of source rows already processed
    n_batches,   \* create_edges_ft: number of batches processed
    max_pairs,   \* create_edges_ft: cap on the candidate pairs of one batch
    e,           \* g.e, the edge table: pairs <<s, t>> of row positions
    has_e,       \* whether g still has its attribute e
    gv,          \* the grouped nodes table: cp -> rows of that component
    cpv,         \* the supernodes table: cp -> summary row
    d_pc,        \* Heatwave_Detection.py: the statement that runs next
    vt,          \* the daily records (x, y, year, ytime, t2m)
    g_t,         \* g_t.v: the records the thresholds are computed from
    tmp2,        \* the thresholds table: <<x, y, ytime>> -> 100 * thresh
    result,      \* vt merged with tmp2
    extr,        \* the extreme dataset
    i_pc,        \* the itime block of Heatwave_Detection.py: next statement
    extr_time,   \* the dates (day numbers) of the extreme dataset
    itime,       \* the column itime: date -> stored value
    m_pc,        \* the magnitude block of Heatwave_Detection.py: next statement
    t2m_amax,    \* the annual maxima of one cell, one per year
    rex,         \* one row of rex: t2m and the two percentiles
    magnitude,   \* what calc_mag returns for that row
    s_pc,        \* seasonal_analysis: next statement
    ytime_mean,  \* cpv.ytime_mean of one heatwave, as [sum, n]
    F_season,    \* cpv.F_season of that heatwave
    o_pc,        \* clustering_step2 create_edges: next statement
    g_ids_s,     \* the footprint of the source supernode
    g_ids_t,     \* the footprint of the target supernode
    intsec,      \* the edge row: intsec_card and intsec_strength
    u_pc,        \* clustering_step2, sub-clustering: next statement
    fam_g_ids,   \* cpv.g_ids of the family: heatwave -> footprint
    no_clusters, \* the argument --upgma_clusters
    forest,      \* linkage: the clusters not merged yet
    lm,          \* linkage: the merges so far, with their heights
    F_upgma,     \* cpv.F_upgma: heatwave -> label
    t_pc,        \* seasonal_analysis, seasons of events and heatwaves: next statement
    events,      \* the event records of one heatwave: [ytime, g_id]
    gv_F_season, \* gv.F_season: event -> season
    cpv_F_season, \* cpv.F_season of the heatwave
    gv_files,    \* the saved gv_[Season].csv: season -> events
    cpv_files,   \* the seasons whose cpv_[Season].csv holds the heatwave
    q_pc,        \* seasonal_clustering_step2: next statement
    q_gv,        \* its input gv: the event records of one heatwave
    season_num,  \* the argument --season
    gv_seasonal, \* the events left by the seasonal filter
    q_cpv,       \* the supernodes of gv_seasonal: cp -> row
    k_pc,        \* seasonal_clusters.py: next statement
    doy,         \* the day of year of one event record
    season,      \* gv.season of that record
    loop_season, \* the season of the loop iteration that runs next
    season_files \* the seasons whose clustering file holds the record

cpv_vars == <<pc, b, extr_data, v, from_pos, n_batches, max_pairs, e, has_e, gv, cpv>>

det_vars == <<d_pc, vt, g_t, tmp2, result, extr>>

itime_vars == <<i_pc, extr_time, itime>>

mag_vars == <<m_pc, t2m_amax, rex, magnitude>>

season_vars == <<s_pc, ytime_mean, F_season>>

intsec_vars == <<o_pc, g_ids_s, g_ids_t, intsec>>

upgma_vars == <<u_pc, fam_g_ids, no_clusters, forest, lm, F_upgma>>

files_vars == <<t_pc, events, gv_F_season, cpv_F_season, gv_files, cpv_files>>

sclust_vars == <<q_pc, q_gv, season_num, gv_seasonal, q_cpv>>

kclust_vars == <<k_pc, doy, season, loop_season, season_files>>

\* the state of the clustering and seasonal scripts added to the model last
later_vars == <<upgma_vars, files_vars, sclust_vars, kclust_vars>>

vars == <<cpv_vars, det_vars, itime_vars, mag_vars, season_vars, intsec_vars, later_vars>>

\* create_cpv is not running
CpvIdle ==
    /\ pc = "idle" /\ b = 0 /\ extr_data = {} /\ v = <<>> /\ from_pos = 0
    /\ n_batches = 0 /\ max_pairs = 0 /\ e = {} /\ has_e = FALSE
    /\ gv = <<>> /\ cpv = <<>>

\* the threshold and detection block is not running
DetIdle ==
    /\ d_pc = "idle" /\ vt = {} /\ g_t = {} /\ tmp2 = <<>>
    /\ result = {} /\ extr = {}

\* the itime block is not running
ItimeIdle == i_pc = "idle" /\ extr_time = {} /\ itime = <<>>

\* the magnitude block is not running
MagIdle == m_pc = "idle" /\ t2m_amax = <<>> /\ rex = <<>> /\ magnitude = <<>>

\* the seasonal analysis is not running
SeasonIdle == s_pc = "idle" /\ ytime_mean = <<>> /\ F_season = <<>>

\* the clustering is not running
IntsecIdle == o_pc = "idle" /\ g_ids_s = {} /\ g_ids_t = {} /\ intsec = <<>>

\* the sub-clustering is not running
UpgmaIdle ==
    /\ u_pc = "idle" /\ fam_g_ids = <<>> /\ no_clusters = 0 /\ forest = {}
    /\ lm = <<>> /\ F_upgma = <<>>

\* the season assignment of seasonal_analysis is not running
FilesIdle ==
    /\ t_pc = "idle" /\ events = {} /\ gv_F_season = <<>> /\ cpv_F_season = <<>>
    /\ gv_files = <<>> /\ cpv_files = {}

\* seasonal_clustering_step2 is not running
SclustIdle ==
    /\ q_pc = "idle" /\ q_gv = {} /\ season_num = 0 /\ gv_seasonal = {}
    /\ q_cpv = <<>>

\* seasonal_clusters.py is not running
KclustIdle ==
    /\ k_pc = "idle" /\ doy = 0 /\ season = <<>> /\ loop_season = 0
    /\ season_files = {}

\* none of the scripts added to the model last is running
LaterIdle == UpgmaIdle /\ FilesIdle /\ SclustIdle /\ KclustIdle

\* ------------------------------------------------------------ helpers ----
Abs(n) == IF n < 0 THEN -n ELSE n

SetMin(S) == CHOOSE m \in S : \A n \in S : m <= n

SetMax(S) == CHOOSE m \in S : \A n \in S : m >= n

Range(f) == {f[i] : i \in DOMAIN f}

\* ------------------------------------------- the extreme dataset (input) ----
Keys == (0..MaxX) \X (0..MaxY) \X (1..MaxDay)

\* the records of the one grid row y = 0
StripKeys == {k \in Keys : k[2] = 0}

RECURSIVE KeySetsUpTo(_, _)
KeySetsUpTo(K, n) ==
    IF n = 0 THEN {{}}
    ELSE LET P == KeySetsUpTo(K, n - 1)
         IN  P \cup {S \cup {k} : S \in P, k \in K}

\* the inputs: up to MaxRecs records anywhere on the grid, or up to
\* MaxRecs + 1 records on the grid row y = 0; never an empty table
KeySets == (KeySetsUpTo(Keys, MaxRecs) \cup KeySetsUpTo(StripKeys, MaxRecs + 1)) \ {{}}

\* the group index of a groupby on longitude alone
GIdOfColumn(x, y) == x

\* result['g_id'] = result.groupby(['longitude', 'latitude']).grouper.group_info[0]
GId(x, y) == x * (MaxY + 1) + y

\* times = pd.date_range(extr.time.min(), extr.time.max(), freq='D');
\* extr['itime'] = extr.time.apply(lambda x: tdic[x]).astype(np.uint16)
ITime(time, time_min) == (time - time_min) % Uint16

ExtrRow(k, mag, time_min) ==
    [x |-> k[1], y |-> k[2], time |-> k[3], itime |-> ITime(k[3], time_min),
     g_id |-> GId(k[1], k[2]), magnitude |-> mag]

ExtrData(S, m) ==
    LET time_min == SetMin({k[3] : k \in S})
    IN  {ExtrRow(k, m[k], time_min) : k \in S}

\* the magnitude column of the input: the values 0..MaxMag laid over the
\* records in a pattern shifted by o
MagPattern(S, o) == [k \in S |-> (k[1] + k[2] + k[3] + o) % (MaxMag + 1)]

\* ------------------------------------------------ con_sep.py connectors ----
grid_2d_dx(x_s, x_t) == x_t - x_s

grid_2d_dy(y_s, y_t) == y_t - y_s

\* the x selector without np.abs
s_grid_2d_dx_no_abs(dx) == dx <= NbrRadius

\* the selectors keep a pair iff the mask is true for it
s_grid_2d_dx(dx) == Abs(dx) <= NbrRadius

s_grid_2d_dy(dy) == Abs(dy) <= NbrRadius

\* ------------------------------------------------------ create_edges_ft ----
\* extr_data.sort_values('time'): any order of the rows that is sorted by time
\* (the default sort is not stable, and the input order is arbitrary)
SortedByTime(S) ==
    LET n == Cardinality(S)
    IN  {p \in [1..n -> S] :
            /\ \A i, j \in 1..n : i < j => p[i] # p[j]
            /\ \A i \in 1..(n - 1) : p[i].time <= p[i + 1].time}

\* the fast-track relation: distance of the sorted feature, target after source
FtR(s, t) == v[t].itime - v[s].itime

FtSelect(ft_r) == ft_r <= FtThreshold

\* the candidate pairs of the source rows lo..hi: targets within the threshold
CandidatePairs(lo, hi) ==
    {<<s, t>> \in (lo..hi) \X (1..Len(v)) : s < t /\ FtSelect(FtR(s, t))}

\* a batch takes as many source rows as the cap allows, and at least one
BatchEnd(lo) ==
    SetMax({hi \in lo..Len(v) :
               hi = lo \/ Cardinality(CandidatePairs(lo, hi)) <= max_pairs})

\* a batch that pairs its source rows with targets of the same batch only
BatchEdgesInside(lo, hi) ==
    {p \in CandidatePairs(lo, hi) :
        LET s == p[1]
            t == p[2]
        IN
        /\ t <= hi
        /\ s_grid_2d_dx(grid_2d_dx(v[s].x, v[t].x))
        /\ s_grid_2d_dy(grid_2d_dy(v[s].y, v[t].y))}

\* the pairs one batch of source rows lo..hi contributes to g.e
BatchEdges(lo, hi) ==
    {p \in CandidatePairs(lo, hi) :
        LET s == p[1]
            t == p[2]
        IN
        /\ s_grid_2d_dx(grid_2d_dx(v[s].x, v[t].x))
        /\ s_grid_2d_dy(grid_2d_dy(v[s].y, v[t].y))}

\* ------------------------------------------------------------ append_cp ----
\* weak connectivity: an edge is followed in both directions
Linked(E, i, j) == <<i, j>> \in E \/ <<j, i>> \in E

\* the direct neighbours only, no transitive step
GrowOnce(E, n, S) == S \cup {j \in 1..n : \E i \in S : Linked(E, i, j)}

RECURSIVE Grow(_, _, _)
Grow(E, n, S) ==
    LET T == S \cup {j \in 1..n : \E i \in S : Linked(E, i, j)}
    IN  IF T = S THEN S ELSE Grow(E, n, T)

Component(E, n, i) == Grow(E, n, {i})

\* scipy's connected_components: labels 0, 1, .. in order of the first row
ConnectedComponents(E, n) ==
    LET first == [i \in 1..n |-> SetMin(Component(E, n, i))]
    IN  [i \in 1..n |-> Cardinality({first[j] : j \in {k \in 1..n : first[k] < first[i]}})]

LabelSize(labels, l) == Cardinality({i \in DOMAIN labels : labels[i] = l})

\* label_by_size: 0 is the largest component; the order among equal sizes is
\* whatever value_counts yields
SizeOrders(labels) ==
    LET L == Range(labels)
    IN  {f \in [L -> 0..(Cardinality(L) - 1)] :
            /\ \A l1, l2 \in L : l1 # l2 => f[l1] # f[l2]
            /\ \A l1, l2 \in L :
                 LabelSize(labels, l1) > LabelSize(labels, l2) => f[l1] < f[l2]}

\* append_cp without consolidate_singles: the labels stay as they are
KeepSingles(labels) == labels

\* consolidate_singles: components of one node go under label 0, the others
\* are numbered from 1 in their size order
ConsolidateSingles(labels) ==
    [i \in DOMAIN labels |->
        IF LabelSize(labels, labels[i]) = 1 THEN 0 ELSE labels[i] + 1]

\* self.v[col_name] = labels: row r with the new column
WithCp(r, c) ==
    [x |-> r.x, y |-> r.y, time |-> r.time, itime |-> r.itime,
     g_id |-> r.g_id, magnitude |-> r.magnitude, cp |-> c]

AppendCpLabels(E, n, f) ==
    LET raw == ConnectedComponents(E, n)
        by_size == [i \in 1..n |-> f[raw[i]]]
    IN  ConsolidateSingles(by_size)

\* ------------------------------------------------------ partition_nodes ----
Rows(nodes) == Range(nodes)

\* a grouping that leaves out the label 0
GroupByWithoutSingles(nodes) ==
    [c \in {r.cp : r \in Rows(nodes)} \ {0} |-> {r \in Rows(nodes) : r.cp = c}]

\* g.partition_nodes('cp', ..., return_gv=True): the groups
GroupBy(nodes) ==
    [c \in {r.cp : r \in Rows(nodes)} |-> {r \in Rows(nodes) : r.cp = c}]

\* np.max in place of np.sum
MaxMagnitude(S) == SetMax({r.magnitude : r \in S})

RECURSIVE SumMagnitude(_)
SumMagnitude(S) ==
    IF S = {} THEN 0
    ELSE LET r == CHOOSE r \in S : TRUE
         IN  r.magnitude + SumMagnitude(S \ {r})

GIds(S) == {r.g_id : r \in S}

\* one row of cpv, lines 48-76 of cppv.py
Supernode(S) ==
    LET time_amin == SetMin({r.time : r \in S})
        time_amax == SetMax({r.time : r \in S})
        dt == time_amax - time_amin
    IN  [n_nodes |-> Cardinality(S),
         time_amin |-> time_amin,
         time_amax |-> time_amax,
         itime_amin |-> SetMin({r.itime : r \in S}),
         itime_amax |-> SetMax({r.itime : r \in S}),
         HWMId_magnitude |-> SumMagnitude(S),
         g_ids |-> GIds(S),
         n_unique_g_ids |-> Cardinality(GIds(S)),
         dt |-> dt,
         timespan |-> dt + 1]

\* the duration test with >= in place of >
KeepFromOneDay(row, bb) == row.dt >= MinDuration /\ row.n_unique_g_ids > bb

\* the footprint test with >= in place of >
KeepAtLeastB(row, bb) == row.dt > MinDuration /\ row.n_unique_g_ids >= bb

\* cpv["keep"] = (cpv.dt > min_duration) & (cpv.n_unique_g_ids > b)
Keep(row, bb) == row.dt > MinDuration /\ row.n_unique_g_ids > bb

\* the kept rows renumbered 0, 1, .. (reset_index dropping cp)
KeptSupernodesRenumbered(table, bb) ==
    LET kept == {d \in DOMAIN table : table[d].dt > MinDuration /\ table[d].n_unique_g_ids > bb}
        rank(d) == Cardinality({d2 \in kept : d2 < d})
    IN  [i \in 0..(Cardinality(kept) - 1) |-> table[CHOOSE d \in kept : rank(d) = i]]

\* cpv = cpv[cpv.keep]; reset_index keeps cp as a column
KeptSupernodes(table, bb) ==
    [c \in {d \in DOMAIN table : Keep(table[d], bb)} |-> table[c]]

\* the nodes table left as it was
KeepAllValues(nodes, cps) == nodes

\* g.filter_by_values_v('cp', cps)
FilterByValues(nodes, cps) == SelectSeq(nodes, LAMBDA r : r.cp \in cps)

\* ---------------------------------------------------------------- Init ----
Init ==
    /\ pc = "sort"
    /\ b \in 0..MaxB
    /\ \E S \in KeySets : \E o \in 0..MaxMag : extr_data = ExtrData(S, MagPattern(S, o))
    /\ v = <<>>
    /\ from_pos = 0
    /\ n_batches = 0
    /\ max_pairs = MaxPairsDefault
    /\ e = {}
    /\ has_e = FALSE
    /\ gv = <<>>
    /\ cpv = <<>>
    /\ DetIdle /\ ItimeIdle /\ MagIdle /\ SeasonIdle /\ IntsecIdle /\ LaterIdle

\* ------------------------------------------------------------- actions ----
\* lines 23-28: to_datetime, sort_values('time'), g = dg.DeepGraph(extr_data)
SortValues ==
    /\ pc = "sort"
    /\ \E p \in SortedByTime(extr_data) : v' = p
    /\ pc' = "edges"
    /\ UNCHANGED <<b, extr_data, from_pos, n_batches, max_pairs, e, has_e, gv, cpv>>
    /\ UNCHANGED <<det_vars, itime_vars, mag_vars, season_vars, intsec_vars, later_vars>>

\* lines 31-40: one batch of create_edges_ft (at most max_pairs pairs at a time);
\* after the last batch the edge table is complete (and its column ft_r renamed to dt)
CreateEdgesBatch ==
    /\ pc = "edges"
    /\ from_pos < Len(v)
    /\ LET to_pos == BatchEnd(from_pos + 1)
       IN  /\ e' = e \cup BatchEdges(from_pos + 1, to_pos)
           /\ from_pos' = to_pos
           /\ pc' = IF to_pos = Len(v) THEN "append_cp" ELSE "edges"
    /\ n_batches' = n_batches + 1
    /\ has_e' = TRUE
    /\ UNCHANGED <<b, extr_data, v, max_pairs, gv, cpv>>
    /\ UNCHANGED <<det_vars, itime_vars, mag_vars, season_vars, intsec_vars, later_vars>>

\* line 43: g.append_cp(consolidate_singles=True)
AppendCp ==
    /\ pc = "append_cp"
    /\ \E f \in SizeOrders(ConnectedComponents(e, Len(v))) :
          v' = [i \in 1..Len(v) |->
                  WithCp(v[i], AppendCpLabels(e, Len(v), f)[i])]
    /\ pc' = "del_e"
    /\ UNCHANGED <<b, extr_data, from_pos, n_batches, max_pairs, e, has_e, gv, cpv>>
    /\ UNCHANGED <<det_vars, itime_vars, mag_vars, season_vars, intsec_vars, later_vars>>

\* line 46: del g.e
DelEdges ==
    /\ pc = "del_e"
    /\ e' = {}
    /\ has_e' = FALSE
    /\ pc' = "partition"
    /\ UNCHANGED <<b, extr_data, v, from_pos, n_batches, max_pairs, gv, cpv>>
    /\ UNCHANGED <<det_vars, itime_vars, mag_vars, season_vars, intsec_vars, later_vars>>

\* lines 48-76: partition_nodes and the additional supernode features
PartitionNodes ==
    /\ pc = "partition"
    /\ gv' = GroupBy(v)
    /\ cpv' = [c \in DOMAIN GroupBy(v) |-> Supernode(GroupBy(v)[c])]
    /\ pc' = "filter"
    /\ UNCHANGED <<b, extr_data, v, from_pos, n_batches, max_pairs, e, has_e>>
    /\ UNCHANGED <<det_vars, itime_vars, mag_vars, season_vars, intsec_vars, later_vars>>

\* lines 78-92: drop the small supernodes, then their nodes
Filter ==
    /\ pc = "filter"
    /\ LET kept == KeptSupernodes(cpv, b)
           cps == DOMAIN kept
       IN  /\ cpv' = kept
           /\ v' = FilterByValues(v, cps)
    /\ pc' = "done"
    /\ UNCHANGED <<b, extr_data, from_pos, n_batches, max_pairs, e, has_e, gv>>
    /\ UNCHANGED <<det_vars, itime_vars, mag_vars, season_vars, intsec_vars, later_vars>>

Next ==
    \/ SortValues
    \/ CreateEdgesBatch
    \/ AppendCp
    \/ DelEdges
    \/ PartitionNodes
    \/ Filter

Spec == Init /\ [][Next]_vars

\* create_cpv with the batches of create_edges_ft capped at 1..MaxCap pairs
InitChunked ==
    /\ pc = "sort"
    /\ b = 0
    /\ \E S \in KeySets : extr_data = ExtrData(S, MagPattern(S, 0))
    /\ v = <<>>
    /\ from_pos = 0
    /\ n_batches = 0
    /\ max_pairs \in (1..MaxCap) \cup {MaxPairsDefault}
    /\ e = {}
    /\ has_e = FALSE
    /\ gv = <<>>
    /\ cpv = <<>>
    /\ DetIdle /\ ItimeIdle /\ MagIdle /\ SeasonIdle /\ IntsecIdle /\ LaterIdle

SpecChunked == InitChunked /\ [][Next]_vars

\* ============ Heatwave_Detection.py: thresholds and extreme records ====
\* A daily record is [x, y, year, ytime, t2m]; a threshold is kept times 100
\* so that the interpolated percentile stays an integer.
MaxCell == 1       \* the cells of the daily records are x in 0..MaxCell, y = 0
MaxYear == 2       \* the years of the daily records are 1..MaxYear
MaxTemp == 1       \* temperatures are 0..MaxTemp
MaxSamples == 2    \* at most this many daily records in vt

LastDay == 365          \* np.arange(366) keeps ytime 0..365
WindowStart == 350      \* np.arange(350, 366)
WindowTail == 15        \* np.arange(1, 16) ends at 15
LoopLen == 366          \* for i in range(366)
WindowLen == 31         \* time_window[i:i+31]
ThreshPct == 99         \* np.percentile(x, 99)

\* the days of the year the daily records fall on: both ends of the year
\* and the days 15 and 16 steps away from them
ProbeDays == {1, WindowTail, WindowTail + 1, WindowStart, LastDay, LoopLen}

DailyRecord(x, year, ytime, t2m) ==
    [x |-> x, y |-> 0, year |-> year, ytime |-> ytime, t2m |-> t2m]

DailyRecords ==
    {DailyRecord(x, year, ytime, t2m) :
        x \in 0..MaxCell, year \in 1..MaxYear, ytime \in ProbeDays, t2m \in 0..MaxTemp}

\* one record per cell and date
OnePerDate(S) ==
    \A r1, r2 \in S :
        (r1.x = r2.x /\ r1.year = r2.year /\ r1.ytime = r2.ytime) => r1 = r2

RECURSIVE RecordSetsUpTo(_)
RecordSetsUpTo(n) ==
    IF n = 0 THEN {{}}
    ELSE LET smaller == RecordSetsUpTo(n - 1)
         IN  smaller \cup {S \cup {r} : S \in smaller, r \in DailyRecords}

DailyTables == {S \in RecordSetsUpTo(MaxSamples) : S # {} /\ OnePerDate(S)}

\* g_t.filter_by_values_v('ytime', np.arange(366)) on a graph of its own:
\* g_t.v loses day 366, the frame vt keeps it
LeapDayFilter(table) == {r \in table : r.ytime \in 0..LastDay}

\* the concatenation started one day later: 351..365, 1..365, 1..16
time_window_from_351 ==
    [j \in 0..(LastDay - WindowStart + LastDay + WindowTail) |->
        IF j < LastDay - WindowStart THEN WindowStart + 1 + j
        ELSE IF j < LastDay - WindowStart + LastDay THEN j + 1 - (LastDay - WindowStart)
        ELSE j + 1 - (LastDay - WindowStart) - LastDay]

\* np.concatenate((np.arange(350, 366), np.arange(1, 366), np.arange(1, 16)))
time_window ==
    [j \in 0..(LastDay - WindowStart + LastDay + WindowTail) |->
        IF j <= LastDay - WindowStart THEN WindowStart + j
        ELSE IF j <= LastDay - WindowStart + LastDay THEN j - (LastDay - WindowStart)
        ELSE j - (LastDay - WindowStart) - LastDay]

\* the slice time_window[i:i+30], one day short
WindowOf30(i) == {time_window[j] : j \in i..(i + WindowLen - 2)}

\* time_window[i:i+31], for the i of the loop (the slice never runs off the end)
Window(i) == {time_window[j] : j \in i..(i + WindowLen - 1)}

\* the t2m lists of cpv_t that fall in the window, joined per cell
Pool(table, x, y, i) ==
    {r \in table : r.x = x /\ r.y = y /\ r.ytime \in Window(i)}

\* the values of a pool in ascending order
RECURSIVE SortedT2m(_)
SortedT2m(S) ==
    IF S = {} THEN <<>>
    ELSE LET m == CHOOSE r \in S : \A q \in S : r.t2m <= q.t2m
         IN  <<m.t2m>> \o SortedT2m(S \ {m})

\* 100 * np.percentile(a, q) of the ascending list a (linear interpolation)
Percentile100(a, q) ==
    LET pos == q * (Len(a) - 1)
        k == pos \div 100
        r == pos % 100
    IN  IF r = 0 THEN 100 * a[k + 1]
        ELSE (100 - r) * a[k + 1] + r * a[k + 2]

\* the loop of lines 64-73: one row per iteration and cell with a pool
ThresholdTable(table) ==
    LET keys == {<<r.x, r.y, i + 1>> : r \in table, i \in 0..(LoopLen - 1)}
        withPool == {k \in keys : Pool(table, k[1], k[2], k[3] - 1) # {}}
    IN  [k \in withPool |->
            Percentile100(SortedT2m(Pool(table, k[1], k[2], k[3] - 1)), ThreshPct)]

\* pd.merge(vt, tmp2, on=["ytime", "x", "y"]): inner join
Merge(table, thresholds) ==
    {[x |-> r.x, y |-> r.y, year |-> r.year, ytime |-> r.ytime, t2m |-> r.t2m,
      thresh |-> thresholds[<<r.x, r.y, r.ytime>>]] :
        r \in {q \in table : <<q.x, q.y, q.ytime>> \in DOMAIN thresholds}}

\* t2m > thresh in place of t2m >= thresh
KeepStrictlyAbove(r) == 100 * r.t2m > r.thresh

\* result["keep"] = np.where(result["t2m"] >= result["thresh"], True, False)
KeepRecord(r) == 100 * r.t2m >= r.thresh

InitDetect ==
    /\ d_pc = "leap_day"
    /\ vt \in DailyTables
    /\ g_t = {}
    /\ tmp2 = <<>>
    /\ result = {}
    /\ extr = {}
    /\ CpvIdle /\ ItimeIdle /\ MagIdle /\ SeasonIdle /\ IntsecIdle /\ LaterIdle

\* lines 52-55
RemoveLeapDay ==
    /\ d_pc = "leap_day"
    /\ g_t' = LeapDayFilter(vt)
    /\ d_pc' = "thresholds"
    /\ UNCHANGED <<vt, tmp2, result, extr>>
    /\ UNCHANGED <<cpv_vars, itime_vars, mag_vars, season_vars, intsec_vars, later_vars>>

\* lines 57-73
CalculateThresholds ==
    /\ d_pc = "thresholds"
    /\ tmp2' = ThresholdTable(g_t)
    /\ d_pc' = "merge"
    /\ UNCHANGED <<vt, g_t, result, extr>>
    /\ UNCHANGED <<cpv_vars, itime_vars, mag_vars, season_vars, intsec_vars, later_vars>>

\* line 75
MergeThresholds ==
    /\ d_pc = "merge"
    /\ result' = Merge(vt, tmp2)
    /\ d_pc' = "detect"
    /\ UNCHANGED <<vt, g_t, tmp2, extr>>
    /\ UNCHANGED <<cpv_vars, itime_vars, mag_vars, season_vars, intsec_vars, later_vars>>

\* lines 83-85
DetectExtremes ==
    /\ d_pc = "detect"
    /\ extr' = {r \in result : KeepRecord(r)}
    /\ d_pc' = "done"
    /\ UNCHANGED <<vt, g_t, tmp2, result>>
    /\ UNCHANGED <<cpv_vars, itime_vars, mag_vars, season_vars, intsec_vars, later_vars>>

NextDetect ==
    \/ RemoveLeapDay
    \/ CalculateThresholds
    \/ MergeThresholds
    \/ DetectExtremes

SpecDetect == InitDetect /\ [][NextDetect]_vars

\* ================= Heatwave_Detection.py: the daily magnitudes ==========
\* The annual maxima of one cell, the two percentiles of them (times 100) and
\* the magnitude of one extreme record of that cell.  A magnitude is the
\* fraction num / den; calc_mag divides floats, so a zero denominator gives
\* an infinite value or raises, as the row holds NumPy or Python floats.
MaxMaxima == 5     \* a cell has 1..MaxMaxima years of daily records

LowPct == 25       \* np.percentile(a_list, 25)
HighPct == 75      \* np.percentile(a_list, 75)

\* the lists of annual maxima of a cell, one value per year
AnnualMaxima == UNION {[1..n -> 0..MaxTemp] : n \in 1..MaxMaxima}

RemoveAt(s, i) == [j \in 1..(Len(s) - 1) |-> IF j < i THEN s[j] ELSE s[j + 1]]

\* the list in ascending order
RECURSIVE SortedList(_)
SortedList(s) ==
    IF s = <<>> THEN <<>>
    ELSE LET i == CHOOSE i \in 1..Len(s) : \A j \in 1..Len(s) : s[i] <= s[j]
         IN  <<s[i]>> \o SortedList(RemoveAt(s, i))

\* 100 * perc25(a_list)
perc25(a_list) == Percentile100(SortedList(a_list), LowPct)

\* 100 * perc75(a_list)
perc75(a_list) == Percentile100(SortedList(a_list), HighPct)

\* pd.merge(extr, ggg, on=['x', 'y']): the record with its cell's percentiles
RexRow(t2m, amax) ==
    [t2m |-> t2m, t2m_amax_perc25 |-> perc25(amax), t2m_amax_perc75 |-> perc75(amax)]

Float(num, den) == [kind |-> "float", num |-> num, den |-> den]

Inf == [kind |-> "inf", num |-> 1, den |-> 0]

ZeroDivisionError == [kind |-> "ZeroDivisionError", num |-> 0, den |-> 0]

\* the distance to perc75 in place of the distance to perc25 as the numerator
calc_mag_from_perc75(data) ==
    IF 100 * data.t2m > data.t2m_amax_perc25
    THEN IF data.t2m_amax_perc75 = data.t2m_amax_perc25
         THEN {Inf, ZeroDivisionError}
         ELSE {Float(100 * data.t2m - data.t2m_amax_perc75,
                     data.t2m_amax_perc75 - data.t2m_amax_perc25)}
    ELSE {Float(0, 1)}

\* calc_mag: the values it can return (or the exception it can raise)
calc_mag(data) ==
    IF 100 * data.t2m > data.t2m_amax_perc25
    THEN IF data.t2m_amax_perc75 = data.t2m_amax_perc25
         THEN {Inf, ZeroDivisionError}
         ELSE {Float(100 * data.t2m - data.t2m_amax_perc25,
                     data.t2m_amax_perc75 - data.t2m_amax_perc25)}
    ELSE {Float(0, 1)}

\* a cell's annual maxima and one of its records, which no annual maximum of
\* the cell can lie below
InitMag ==
    /\ m_pc = "percentiles"
    /\ t2m_amax \in AnnualMaxima
    /\ \E t2m \in 0..MaxTemp :
          /\ \E year \in DOMAIN t2m_amax : t2m <= t2m_amax[year]
          /\ rex = [t2m |-> t2m]
    /\ magnitude = <<>>
    /\ CpvIdle /\ DetIdle /\ ItimeIdle /\ SeasonIdle /\ IntsecIdle /\ LaterIdle

\* lines 99-103
AnnualPercentiles ==
    /\ m_pc = "percentiles"
    /\ rex' = RexRow(rex.t2m, t2m_amax)
    /\ m_pc' = "calc_mag"
    /\ UNCHANGED <<t2m_amax, magnitude>>
    /\ UNCHANGED <<cpv_vars, det_vars, itime_vars, season_vars, intsec_vars, later_vars>>

\* line 104
CalcMag ==
    /\ m_pc = "calc_mag"
    /\ magnitude' \in calc_mag(rex)
    /\ m_pc' = IF magnitude' = ZeroDivisionError THEN "raised" ELSE "done"
    /\ UNCHANGED <<t2m_amax, rex>>
    /\ UNCHANGED <<cpv_vars, det_vars, itime_vars, season_vars, intsec_vars, later_vars>>

NextMag ==
    \/ AnnualPercentiles
    \/ CalcMag

SpecMag == InitMag /\ [][NextMag]_vars

\* ================== Heatwave_Detection.py: the column itime =============
\* Dates are day numbers.  The extreme dataset holds up to MaxRecs dates, from
\* the first days of the record and from the days 65536 and more days later.
ExtremeDates == (1..MaxDay) \cup {Uint16 + d : d \in 0..MaxDay}

DateSets == KeySetsUpTo(ExtremeDates, MaxRecs) \ {{}}

\* times = pd.date_range(extr.time.min(), extr.time.max(), freq='D');
\* tdic = {time: itime for itime, time in enumerate(times)};
\* extr.time.apply(lambda x: tdic[x]).astype(np.uint16)
ItimeColumn(times) == [t \in times |-> ITime(t, SetMin(times))]

InitItime ==
    /\ i_pc = "itime"
    /\ extr_time \in DateSets
    /\ itime = <<>>
    /\ CpvIdle /\ DetIdle /\ MagIdle /\ SeasonIdle /\ IntsecIdle /\ LaterIdle

\* lines 88-91
AddItime ==
    /\ i_pc = "itime"
    /\ itime' = ItimeColumn(extr_time)
    /\ i_pc' = "done"
    /\ UNCHANGED extr_time
    /\ UNCHANGED <<cpv_vars, det_vars, mag_vars, season_vars, intsec_vars, later_vars>>

NextItime == AddItime

SpecItime == InitItime /\ [][NextItime]_vars

\* ======================= seasonal_analysis: F_season of a heatwave =======
\* A heatwave has records on each day of a run of at least three days (its
\* time_amax - time_amin is above one day and its records are linked day to
\* day), here inside one year.  ytime_mean is kept as the fraction sum / n.
MaxRun == 4        \* a heatwave lasts 3..MaxRun days
MaxPerDay == 2     \* and has 1..MaxPerDay records on each of its days

\* the records per day of the heatwaves that start on day first
DayCounts(first) ==
    UNION {[first..(first + len - 1) -> 1..MaxPerDay] :
              len \in {l \in (MinDuration + 2)..MaxRun : first + l - 1 <= LoopLen}}

RECURSIVE SumOver(_, _)
SumOver(f, D) ==
    IF D = {} THEN 0
    ELSE LET d == CHOOSE d \in D : TRUE
         IN  f[d] + SumOver(f, D \ {d})

\* 'ytime': [np.mean] over the records of the heatwave
YtimeMean(counts) ==
    [sum |-> SumOver([d \in DOMAIN counts |-> d * counts[d]], DOMAIN counts),
     n |-> SumOver(counts, DOMAIN counts)]

\* get_meteorological_season, for a day of year that is the fraction sum / n
get_meteorological_season(day_of_year) ==
    IF day_of_year.sum >= 335 * day_of_year.n \/ day_of_year.sum <= 59 * day_of_year.n
    THEN 0
    ELSE IF 60 * day_of_year.n <= day_of_year.sum /\ day_of_year.sum <= 151 * day_of_year.n
    THEN 1
    ELSE IF 152 * day_of_year.n <= day_of_year.sum /\ day_of_year.sum <= 243 * day_of_year.n
    THEN 2
    ELSE IF 244 * day_of_year.n <= day_of_year.sum /\ day_of_year.sum <= 334 * day_of_year.n
    THEN 3
    ELSE -1

InitSeason ==
    /\ s_pc = "assign"
    /\ \E first \in 1..LoopLen : \E counts \in DayCounts(first) :
          ytime_mean = YtimeMean(counts)
    /\ F_season = <<>>
    /\ CpvIdle /\ DetIdle /\ ItimeIdle /\ MagIdle /\ IntsecIdle /\ LaterIdle

\* cpv['F_season'] = cpv['ytime_mean'].apply(get_meteorological_season)
AssignSeason ==
    /\ s_pc = "assign"
    /\ F_season' = get_meteorological_season(ytime_mean)
    /\ s_pc' = "done"
    /\ UNCHANGED ytime_mean
    /\ UNCHANGED <<cpv_vars, det_vars, itime_vars, mag_vars, intsec_vars, later_vars>>

NextSeason == AssignSeason

SpecSeason == InitSeason /\ [][NextSeason]_vars

\* ============ clustering_step2: the superedges between two heatwaves ====
\* One pair (source, target) of supernodes of cpg, their footprints g_ids
\* non-empty sets of cell ids; intsec_strength is the fraction num / den.
MaxFootprintId == 3    \* the cell ids of the footprints are 0..MaxFootprintId

Footprints == (SUBSET (0..MaxFootprintId)) \ {{}}

\* cpv['n_unique_g_ids'] = cpv['g_ids'].apply(len)
NUniqueGIds(g_ids) == Cardinality(g_ids)

\* cp_node_intersection, for one pair: intsec_card
cp_node_intersection(s, t) == Cardinality(s \cap t)

\* np.minimum
Minimum(m, n) == IF m <= n THEN m ELSE n

\* the overlap divided by the size of the source footprint
cp_intersection_strength_of_source(n_unique_g_ids_s, n_unique_g_ids_t, intsec_card) ==
    [num |-> intsec_card, den |-> n_unique_g_ids_s]

\* cp_intersection_strength, for one pair: intsec_card / min_card
cp_intersection_strength(n_unique_g_ids_s, n_unique_g_ids_t, intsec_card) ==
    [num |-> intsec_card, den |-> Minimum(n_unique_g_ids_s, n_unique_g_ids_t)]

InitIntsec ==
    /\ o_pc = "node_intersection"
    /\ g_ids_s \in Footprints
    /\ g_ids_t \in Footprints
    /\ intsec = <<>>
    /\ CpvIdle /\ DetIdle /\ ItimeIdle /\ MagIdle /\ SeasonIdle /\ LaterIdle

\* create_edges, first connector
NodeIntersection ==
    /\ o_pc = "node_intersection"
    /\ intsec' = [intsec_card |-> cp_node_intersection(g_ids_s, g_ids_t)]
    /\ o_pc' = "intersection_strength"
    /\ UNCHANGED <<g_ids_s, g_ids_t>>
    /\ UNCHANGED <<cpv_vars, det_vars, itime_vars, mag_vars, season_vars, later_vars>>

\* create_edges, second connector
IntersectionStrength ==
    /\ o_pc = "intersection_strength"
    /\ intsec' = [intsec_card |-> intsec.intsec_card,
                  intsec_strength |->
                      cp_intersection_strength(NUniqueGIds(g_ids_s), NUniqueGIds(g_ids_t),
                                               intsec.intsec_card)]
    /\ o_pc' = "done"
    /\ UNCHANGED <<g_ids_s, g_ids_t>>
    /\ UNCHANGED <<cpv_vars, det_vars, itime_vars, mag_vars, season_vars, later_vars>>

NextIntsec ==
    \/ NodeIntersection
    \/ IntersectionStrength

SpecIntsec == InitIntsec /\ [][NextIntsec]_vars

\* create_cpv on a record of more than 65536 days: the records lie on the
\* grid row y = 0, on the first days of the record and 65536 and more days
\* later.  create_edges_ft needs a table sorted by itime, so only the inputs
\* whose stored itime still grows with the date are taken.
LongKeys == {k \in (0..MaxX) \X {0} \X ExtremeDates : TRUE}

ItimeSortedByDate(S) ==
    \A k1, k2 \in S :
        k1[3] <= k2[3] =>
            ITime(k1[3], SetMin({k[3] : k \in S})) <= ITime(k2[3], SetMin({k[3] : k \in S}))

LongKeySets ==
    {S \in KeySetsUpTo(LongKeys, MaxRecs) \ {{}} :
        /\ ItimeSortedByDate(S)
        /\ \E k \in S : k[3] >= Uint16}

InitLong ==
    /\ pc = "sort"
    /\ b = 0
    /\ \E S \in LongKeySets : extr_data = ExtrData(S, MagPattern(S, 0))
    /\ v = <<>>
    /\ from_pos = 0
    /\ n_batches = 0
    /\ max_pairs = MaxPairsDefault
    /\ e = {}
    /\ has_e = FALSE
    /\ gv = <<>>
    /\ cpv = <<>>
    /\ DetIdle /\ ItimeIdle /\ MagIdle /\ SeasonIdle /\ IntsecIdle /\ LaterIdle

SpecLong == InitLong /\ [][Next]_vars

\* ========== clustering scripts: the supernodes of the saved events table ====
\* g.partition_nodes('cp', feature_funcs, return_gv=True) on the events table
\* that create_cpv left, with the features the scripts append
ClusteringSupernodes(nodes) ==
    [c \in {r.cp : r \in Rows(nodes)} |->
        LET ggv == {r \in Rows(nodes) : r.cp = c}
            time_amin == SetMin({r.time : r \in ggv})
            time_amax == SetMax({r.time : r \in ggv})
        IN  [time_amin |-> time_amin,
             time_amax |-> time_amax,
             HWMId_magnitude |-> SumMagnitude(ggv),
             g_ids |-> {r.g_id : r \in ggv},
             n_unique_g_ids |-> Cardinality({r.g_id : r \in ggv}),
             dt |-> time_amax - time_amin,
             timespan |-> time_amax - time_amin + 1]]

\* ================== seasonal_clusters.py: the four seasonal clusterings ====
\* One event record of the input is followed: its day of year, the season
\* assign_season gives it, and the clustering files it is written to.
Season(n) == [isnan |-> FALSE, value |-> n]

NaN == [isnan |-> TRUE, value |-> 0]

\* assign_season
assign_season(d) ==
    IF 1 <= d /\ d <= 90 THEN Season(1)
    ELSE IF 91 <= d /\ d <= 180 THEN Season(2)
    ELSE IF 181 <= d /\ d <= 270 THEN Season(3)
    ELSE IF 271 <= d /\ d <= 360 THEN Season(4)
    ELSE NaN

\* gv[gv['season'] == season]: whether the record is in season_data
InSeasonData(record_season, s) == ~record_season.isnan /\ record_season.value = s

\* gv['doy'] = gv['time'].dt.dayofyear: any day of a year, leap years included
InitKclust ==
    /\ k_pc = "assign"
    /\ doy \in 1..366
    /\ season = <<>>
    /\ loop_season = 0
    /\ season_files = {}
    /\ CpvIdle /\ DetIdle /\ ItimeIdle /\ MagIdle /\ SeasonIdle /\ IntsecIdle
    /\ UpgmaIdle /\ FilesIdle /\ SclustIdle

\* lines 48-49
AssignSeasons ==
    /\ k_pc = "assign"
    /\ season' = assign_season(doy)
    /\ loop_season' = 1
    /\ k_pc' = "loop"
    /\ UNCHANGED <<doy, season_files>>
    /\ UNCHANGED <<cpv_vars, det_vars, itime_vars, mag_vars, season_vars, intsec_vars>>
    /\ UNCHANGED <<upgma_vars, files_vars, sclust_vars>>

\* lines 55-72: one iteration of for season in range(1, 5)
ClusterSeason ==
    /\ k_pc = "loop"
    /\ season_files' = IF InSeasonData(season, loop_season)
                       THEN season_files \cup {loop_season}
                       ELSE season_files
    /\ loop_season' = loop_season + 1
    /\ k_pc' = IF loop_season + 1 < 5 THEN "loop" ELSE "done"
    /\ UNCHANGED <<doy, season>>
    /\ UNCHANGED <<cpv_vars, det_vars, itime_vars, mag_vars, season_vars, intsec_vars>>
    /\ UNCHANGED <<upgma_vars, files_vars, sclust_vars>>

NextKclust ==
    \/ AssignSeasons
    \/ ClusterSeason

SpecKclust == InitKclust /\ [][NextKclust]_vars

\* ======== seasonal_analysis: the seasons of events and of heatwaves, saved ==
\* One heatwave (one value of cp) is followed: its event records, the season
\* each record gets, the season the heatwave gets, and the per-season files.

\* the event records of a heatwave with counts[d] records on day d
EventsOf(counts) ==
    UNION {{[ytime |-> d, g_id |-> k] : k \in 1..counts[d]} : d \in DOMAIN counts}

RECURSIVE SumYtime(_)
SumYtime(S) ==
    IF S = {} THEN 0
    ELSE LET r == CHOOSE r \in S : TRUE
         IN  r.ytime + SumYtime(S \ {r})

\* 'ytime': [np.mean] over the records of one cp
MeanYtime(S) == [sum |-> SumYtime(S), n |-> Cardinality(S)]

\* the day of year of one record, as the fraction get_meteorological_season takes
YtimeOf(r) == [sum |-> r.ytime, n |-> 1]

\* seasons_present: the seasons of the events, error cases removed
SeasonsPresent(seasons) == {seasons[r] : r \in DOMAIN seasons} \cap (0..3)

InitFiles ==
    /\ t_pc = "events"
    /\ \E first \in 1..LoopLen : \E counts \in DayCounts(first) :
          events = EventsOf(counts)
    /\ gv_F_season = <<>>
    /\ cpv_F_season = <<>>
    /\ gv_files = <<>>
    /\ cpv_files = {}
    /\ CpvIdle /\ DetIdle /\ ItimeIdle /\ MagIdle /\ SeasonIdle /\ IntsecIdle
    /\ UpgmaIdle /\ SclustIdle /\ KclustIdle

\* gv['F_season'] = gv['ytime'].apply(get_meteorological_season)
AssignEventSeasons ==
    /\ t_pc = "events"
    /\ gv_F_season' = [r \in events |-> get_meteorological_season(YtimeOf(r))]
    /\ t_pc' = "heatwaves"
    /\ UNCHANGED <<events, cpv_F_season, gv_files, cpv_files>>
    /\ UNCHANGED <<cpv_vars, det_vars, itime_vars, mag_vars, season_vars, intsec_vars>>
    /\ UNCHANGED <<upgma_vars, sclust_vars, kclust_vars>>

\* cpv['F_season'] = cpv['ytime_mean'].apply(get_meteorological_season)
AssignHeatwaveSeason ==
    /\ t_pc = "heatwaves"
    /\ cpv_F_season' = get_meteorological_season(MeanYtime(events))
    /\ t_pc' = "save"
    /\ UNCHANGED <<events, gv_F_season, gv_files, cpv_files>>
    /\ UNCHANGED <<cpv_vars, det_vars, itime_vars, mag_vars, season_vars, intsec_vars>>
    /\ UNCHANGED <<upgma_vars, sclust_vars, kclust_vars>>

\* one iteration of for season in seasons_present: the two files of a season
SaveSeason ==
    /\ t_pc = "save"
    /\ SeasonsPresent(gv_F_season) \ DOMAIN gv_files # {}
    /\ LET s == SetMin(SeasonsPresent(gv_F_season) \ DOMAIN gv_files)
           gv_season == {r \in events : gv_F_season[r] = s}
       IN  /\ gv_files' = [x \in DOMAIN gv_files \cup {s} |->
                              IF x = s THEN gv_season ELSE gv_files[x]]
           /\ cpv_files' = IF cpv_F_season = s THEN cpv_files \cup {s} ELSE cpv_files
    /\ UNCHANGED <<t_pc, events, gv_F_season, cpv_F_season>>
    /\ UNCHANGED <<cpv_vars, det_vars, itime_vars, mag_vars, season_vars, intsec_vars>>
    /\ UNCHANGED <<upgma_vars, sclust_vars, kclust_vars>>

\* the loop is over: gv_with_seasons.csv and cpv_with_seasons.csv are saved
SaveCombined ==
    /\ t_pc = "save"
    /\ SeasonsPresent(gv_F_season) \ DOMAIN gv_files = {}
    /\ t_pc' = "done"
    /\ UNCHANGED <<events, gv_F_season, cpv_F_season, gv_files, cpv_files>>
    /\ UNCHANGED <<cpv_vars, det_vars, itime_vars, mag_vars, season_vars, intsec_vars>>
    /\ UNCHANGED <<upgma_vars, sclust_vars, kclust_vars>>

NextFiles ==
    \/ AssignEventSeasons
    \/ AssignHeatwaveSeason
    \/ SaveSeason
    \/ SaveCombined

SpecFiles == InitFiles /\ [][NextFiles]_vars

\* ====== seasonal_clustering_step2: the heatwaves of one season, partitioned ==
\* The events table of one heatwave (cp = 1) is read by runs of the script,
\* one run for each season number given with -s.  q_cpv[s] is the table of
\* heatwaves of the run for season s; a run that exits leaves an empty table.
SeasonCodes == 0..3

\* the events table read with -d: the records of the heatwave
SeasonalEventsOf(counts) ==
    {[cp |-> 1, ytime |-> r.ytime, g_id |-> r.g_id] : r \in EventsOf(counts)}

\* gv[gv['F_season'] == season_num]
FilterToSeason(table, s) ==
    {r \in table : get_meteorological_season(YtimeOf(r)) = s}

\* partition_nodes('cp') of the seasonal events, with g_ids and n_unique_g_ids
SeasonalSupernodes(table) ==
    [c \in {r.cp : r \in table} |->
        LET ggv == {r \in table : r.cp = c}
        IN  [g_ids |-> {r.g_id : r \in ggv},
             n_unique_g_ids |-> Cardinality({r.g_id : r \in ggv}),
             ytime_mean |-> MeanYtime(ggv)]]

InitSclust ==
    /\ q_pc = "filter"
    /\ \E first \in 1..LoopLen : \E counts \in DayCounts(first) :
          q_gv = SeasonalEventsOf(counts)
    /\ season_num \in SeasonCodes
    /\ gv_seasonal = {}
    /\ q_cpv = <<>>
    /\ CpvIdle /\ DetIdle /\ ItimeIdle /\ MagIdle /\ SeasonIdle /\ IntsecIdle
    /\ UpgmaIdle /\ FilesIdle /\ KclustIdle

\* lines 54-64: the events of the season; exit() when there are none
FilterSeason ==
    /\ q_pc = "filter"
    /\ gv_seasonal' = FilterToSeason(q_gv, season_num)
    /\ IF gv_seasonal' = {}
       THEN /\ q_pc' = "done"
            /\ q_cpv' = [s \in DOMAIN q_cpv \cup {season_num} |->
                            IF s = season_num THEN <<>> ELSE q_cpv[s]]
       ELSE /\ q_pc' = "partition"
            /\ UNCHANGED q_cpv
    /\ UNCHANGED <<q_gv, season_num>>
    /\ UNCHANGED <<cpv_vars, det_vars, itime_vars, mag_vars, season_vars, intsec_vars>>
    /\ UNCHANGED <<upgma_vars, files_vars, kclust_vars>>

\* lines 67-90: the heatwaves of gv_seasonal
PartitionSeason ==
    /\ q_pc = "partition"
    /\ q_cpv' = [s \in DOMAIN q_cpv \cup {season_num} |->
                    IF s = season_num THEN SeasonalSupernodes(gv_seasonal)
                    ELSE q_cpv[s]]
    /\ q_pc' = "done"
    /\ UNCHANGED <<q_gv, season_num, gv_seasonal>>
    /\ UNCHANGED <<cpv_vars, det_vars, itime_vars, mag_vars, season_vars, intsec_vars>>
    /\ UNCHANGED <<upgma_vars, files_vars, kclust_vars>>

\* the script is run again, for a season it has not been run for
RunNextSeason ==
    /\ q_pc = "done"
    /\ \E s \in SeasonCodes \ DOMAIN q_cpv : season_num' = s
    /\ gv_seasonal' = {}
    /\ q_pc' = "filter"
    /\ UNCHANGED <<q_gv, q_cpv>>
    /\ UNCHANGED <<cpv_vars, det_vars, itime_vars, mag_vars, season_vars, intsec_vars>>
    /\ UNCHANGED <<upgma_vars, files_vars, kclust_vars>>

NextSclust ==
    \/ FilterSeason
    \/ PartitionSeason
    \/ RunNextSeason

SpecSclust == InitSclust /\ [][NextSclust]_vars

\* ================ clustering_step2: UPGMA sub-clustering of one family ====
\* fam_g_ids[c] is cpv['g_ids'] of heatwave c of the family; no_clusters is
\* the value of -u.  linkage is followed merge by merge; a family has at
\* least two heatwaves, the least for which there is a distance to link.
MaxFamily == 3     \* a family has 2..MaxFamily heatwaves

RECURSIVE Factorial(_)
Factorial(n) == IF n <= 1 THEN 1 ELSE n * Factorial(n - 1)

\* distances are kept as whole multiples of 1 / DistanceUnit; every footprint
\* size divides DistanceUnit, so the distances are exact
DistanceUnit == Factorial(MaxFootprintId + 1)

Families == UNION {[1..m -> Footprints] : m \in 2..MaxFamily}

\* dv = 1 - cpg.e.intsec_strength.values, for the pair of heatwaves s, t
CondensedDistance(fam, s, t) ==
    LET intsec_card == cp_node_intersection(fam[s], fam[t])
        strength == cp_intersection_strength(NUniqueGIds(fam[s]),
                                             NUniqueGIds(fam[t]), intsec_card)
    IN  DistanceUnit - (DistanceUnit * strength.num) \div strength.den

RECURSIVE SumDistances(_, _)
SumDistances(fam, pairs) ==
    IF pairs = {} THEN 0
    ELSE LET pr == CHOOSE pr \in pairs : TRUE
         IN  CondensedDistance(fam, pr[1], pr[2]) + SumDistances(fam, pairs \ {pr})

\* method='average': the mean distance between the members of two clusters
AverageDistance(fam, c1, c2) ==
    [num |-> SumDistances(fam, c1 \X c2), den |-> Cardinality(c1) * Cardinality(c2)]

\* x <= y for two fractions
FractionLeq(x, y) == x.num * y.den <= y.num * x.den

\* the pairs of clusters of the forest
ClusterPairs(clusters) == {pr \in clusters \X clusters : SetMin(pr[1]) < SetMin(pr[2])}

\* the pairs linkage may merge next: those at the least average distance
ClosestPairs(fam, clusters) ==
    {pr \in ClusterPairs(clusters) :
        \A other \in ClusterPairs(clusters) :
            FractionLeq(AverageDistance(fam, pr[1], pr[2]),
                        AverageDistance(fam, other[1], other[2]))}

\* the height of the merge that first puts s and t in one cluster
CopheneticDistance(merges, s, t) ==
    LET joined == {k \in DOMAIN merges : {s, t} \subseteq merges[k].left \cup merges[k].right}
    IN  merges[SetMin(joined)].dist

\* the flat clusters in which no two heatwaves are further apart than r
FlatClusters(merges, m, r) ==
    {{t \in 1..m : t = s \/ FractionLeq(CopheneticDistance(merges, s, t), r)} : s \in 1..m}

\* criterion='maxclust': the least threshold that gives no more than t clusters
MaxclustThreshold(merges, m, t) ==
    LET thresholds == {[num |-> 0, den |-> 1]} \cup {merges[k].dist : k \in DOMAIN merges}
        fit == {r \in thresholds : Cardinality(FlatClusters(merges, m, r)) <= t}
    IN  CHOOSE r \in fit : \A r2 \in fit : FractionLeq(r, r2)

\* fcluster(lm, t, criterion='maxclust'): the label vectors it can return;
\* the flat clusters are numbered from 1, in an order of the tree's choosing
fcluster(merges, m, t) ==
    LET flat == FlatClusters(merges, m, MaxclustThreshold(merges, m, t))
    IN  {T \in [1..m -> 1..Cardinality(flat)] :
            \A s, s2 \in 1..m : (T[s] = T[s2]) <=> (\E c \in flat : {s, s2} \subseteq c)}

\* the number of heatwaves with label j
ValueCount(T, j) == Cardinality({s \in DOMAIN T : T[s] = j})

\* the orders of all the labels of T
LabelOrders(T) ==
    LET labels == {T[s] : s \in DOMAIN T}
    IN  {f \in [1..Cardinality(labels) -> labels] :
            \A x, y \in DOMAIN f : x # y => f[x] # f[y]}

\* value_counts().index.values in any order of the labels
AnyLabelOrder(T) == LabelOrders(T)

\* value_counts().index.values: the labels by falling count, ties in any order
ValueCountsIndex(T) ==
    {f \in LabelOrders(T) :
        \A x, y \in DOMAIN f : x < y => ValueCount(T, f[x]) >= ValueCount(T, f[y])}

\* fdic = {j: i for i, j in enumerate(f)}
Fdic(f) == [j \in {f[x] : x \in DOMAIN f} |-> (CHOOSE x \in DOMAIN f : f[x] = j) - 1]

InitUpgma ==
    /\ u_pc = "linkage"
    /\ fam_g_ids \in Families
    /\ no_clusters \in 1..(Len(fam_g_ids) + 1)
    /\ forest = {{c} : c \in 1..Len(fam_g_ids)}
    /\ lm = <<>>
    /\ F_upgma = <<>>
    /\ CpvIdle /\ DetIdle /\ ItimeIdle /\ MagIdle /\ SeasonIdle /\ IntsecIdle
    /\ FilesIdle /\ SclustIdle /\ KclustIdle

\* lm = linkage(dv, method='average', metric='euclidean'): one merge
LinkageMerge ==
    /\ u_pc = "linkage"
    /\ \E pr \in ClosestPairs(fam_g_ids, forest) :
          /\ forest' = (forest \ {pr[1], pr[2]}) \cup {pr[1] \cup pr[2]}
          /\ lm' = Append(lm, [left |-> pr[1], right |-> pr[2],
                               dist |-> AverageDistance(fam_g_ids, pr[1], pr[2]),
                               count |-> Cardinality(pr[1] \cup pr[2])])
    /\ u_pc' = IF Cardinality(forest') = 1 THEN "fcluster" ELSE "linkage"
    /\ UNCHANGED <<fam_g_ids, no_clusters, F_upgma>>
    /\ UNCHANGED <<cpv_vars, det_vars, itime_vars, mag_vars, season_vars, intsec_vars>>
    /\ UNCHANGED <<files_vars, sclust_vars, kclust_vars>>

\* cpv['F_upgma'] = fcluster(lm, no_clusters, criterion='maxclust')
Fcluster ==
    /\ u_pc = "fcluster"
    /\ F_upgma' \in fcluster(lm, Len(fam_g_ids), no_clusters)
    /\ u_pc' = "relabel"
    /\ UNCHANGED <<fam_g_ids, no_clusters, forest, lm>>
    /\ UNCHANGED <<cpv_vars, det_vars, itime_vars, mag_vars, season_vars, intsec_vars>>
    /\ UNCHANGED <<files_vars, sclust_vars, kclust_vars>>

\* relabel families by size
RelabelBySize ==
    /\ u_pc = "relabel"
    /\ \E f \in ValueCountsIndex(F_upgma) :
          F_upgma' = [c \in DOMAIN F_upgma |-> Fdic(f)[F_upgma[c]]]
    /\ u_pc' = "save"
    /\ UNCHANGED <<fam_g_ids, no_clusters, forest, lm>>
    /\ UNCHANGED <<cpv_vars, det_vars, itime_vars, mag_vars, season_vars, intsec_vars>>
    /\ UNCHANGED <<files_vars, sclust_vars, kclust_vars>>

\* cpv.to_csv, gv.to_csv: the labels are written
SaveFamily ==
    /\ u_pc = "save"
    /\ u_pc' = "done"
    /\ UNCHANGED <<fam_g_ids, no_clusters, forest, lm, F_upgma>>
    /\ UNCHANGED <<cpv_vars, det_vars, itime_vars, mag_vars, season_vars, intsec_vars>>
    /\ UNCHANGED <<files_vars, sclust_vars, kclust_vars>>

NextUpgma ==
    \/ LinkageMerge
    \/ Fcluster
    \/ RelabelBySize
    \/ SaveFamily

SpecUpgma == InitUpgma /\ [][NextUpgma]_vars

\* =============================================================== claims ====
\* s and t are joined by a row of the edge table
InEdgeTable(s, t) == <<s, t>> \in e \/ <<t, s>> \in e

HasEdge(i) == \E j \in 1..Len(v) : InEdgeTable(i, j)

MooreNeighbours(r1, r2) == Abs(r1.x - r2.x) <= 1 /\ Abs(r1.y - r2.y) <= 1

\* the input row a labelled row of g.v came from
InputRow(r) ==
    [x |-> r.x, y |-> r.y, time |-> r.time, itime |-> r.itime,
     g_id |-> r.g_id, magnitude |-> r.magnitude]

TimespanOf(S) == SetMax({r.time : r \in S}) - SetMin({r.time : r \in S}) + 1

FootprintOf(S) == Cardinality({r.g_id : r \in S})

\* C1 as stated: once the edge table is complete, two distinct records are
\* linked iff they are exactly one day apart (|itime_s - itime_t| = 1) and
\* Moore neighbours; same-day records are never linked.
C1_EdgeIffExactlyOneDayApart ==
    pc \in {"append_cp", "del_e"} =>
        \A s, t \in 1..Len(v) :
            s # t =>
                (InEdgeTable(s, t) <=>
                    /\ Abs(v[s].itime - v[t].itime) = 1
                    /\ MooreNeighbours(v[s], v[t]))

\* C1 amended: once the edge table is complete, two distinct records are
\* linked iff they are at most one day apart (|itime_s - itime_t| <= 1, the
\* same day included) and Moore neighbours; records two or more days apart
\* are never linked.
C1_EdgeIffAtMostOneDayApart ==
    pc \in {"append_cp", "del_e"} =>
        \A s, t \in 1..Len(v) :
            s # t =>
                (InEdgeTable(s, t) <=>
                    /\ Abs(v[s].itime - v[t].itime) <= 1
                    /\ MooreNeighbours(v[s], v[t]))

\* a complete edge table with a same-day edge, a next-day edge and a pair of
\* records that is not linked
C1_Witness ==
    /\ pc = "append_cp"
    /\ \E s, t \in 1..Len(v) : <<s, t>> \in e /\ v[s].itime = v[t].itime
    /\ \E s, t \in 1..Len(v) : <<s, t>> \in e /\ v[t].itime = v[s].itime + 1
    /\ \E s, t \in 1..Len(v) : s # t /\ ~InEdgeTable(s, t)

ExampleKeys == {<<0, 0, 1>>, <<1, 0, 2>>, <<MaxX, MaxY, 2>>}

IsExample == {<<r.x, r.y, r.time>> : r \in extr_data} = ExampleKeys

\* C3 as stated: with b = 0 every component made of two or more connected
\* records is retained (in the example the first two events form one retained
\* component of size 2); with b at least every footprint nothing is retained.
C3_ZeroBKeepsEveryLinkedComponent ==
    pc = "done" =>
        /\ b = 0 => \A c \in DOMAIN gv \ {0} : c \in DOMAIN cpv
        /\ (\A c \in DOMAIN gv : FootprintOf(gv[c]) <= b) => DOMAIN cpv = {}

\* C3 amended: with b = 0 a component made of two or more connected records
\* is retained iff its timespan is 3 days or more (in the example the first
\* two events form one component of size 2 and the third is isolated, and
\* neither is retained); with b at least every footprint nothing is retained.
C3_ZeroBKeepsEveryLongComponent ==
    pc = "done" =>
        /\ b = 0 => \A c \in DOMAIN gv \ {0} : c \in DOMAIN cpv <=> TimespanOf(gv[c]) >= 3
        /\ (\A c \in DOMAIN gv : FootprintOf(gv[c]) <= b) => DOMAIN cpv = {}
        /\ IsExample =>
              /\ DOMAIN gv = {0, 1}
              /\ Cardinality(gv[1]) = 2
              /\ Cardinality(gv[0]) = 1
              /\ b = 0 => DOMAIN cpv = {}

\* b = 0 and a component of linked records is retained next to a discarded one
C3_Witness ==
    /\ pc = "done"
    /\ b = 0
    /\ \E c \in DOMAIN cpv : c # 0 /\ Cardinality(gv[c]) >= 2
    /\ DOMAIN gv # DOMAIN cpv

\* a path of rows of the edge table from row i to row j
Joined(i, j) ==
    \E k \in 1..Len(v) :
        \E p \in [1..k -> 1..Len(v)] :
            /\ p[1] = i
            /\ p[k] = j
            /\ \A m \in 1..(k - 1) : InEdgeTable(p[m], p[m + 1])

\* C4: after labeling, two records that each have an incident edge carry the
\* same cp iff a path of edges joins them.
C4_SameCpIffJoined ==
    pc = "del_e" =>
        \A i, j \in 1..Len(v) :
            (HasEdge(i) /\ HasEdge(j)) => (v[i].cp = v[j].cp <=> Joined(i, j))

\* two records with no edge between them share a component through a third,
\* and another component with an edge carries a different label
C4_Witness ==
    /\ pc = "del_e"
    /\ \E i, j \in 1..Len(v) :
          i # j /\ ~InEdgeTable(i, j) /\ Joined(i, j) /\ v[i].cp = v[j].cp

\* C5: all records without an incident edge carry one and the same cp, and
\* that value is the cp of no record with an incident edge.
C5_IsolatedShareOnePlaceholder ==
    pc = "del_e" =>
        \A i, j \in 1..Len(v) :
            ~HasEdge(i) =>
                /\ ~HasEdge(j) => v[i].cp = v[j].cp
                /\ HasEdge(j) => v[i].cp # v[j].cp

\* two isolated records next to a component with an edge
C5_Witness ==
    /\ pc = "del_e"
    /\ \E i, j \in 1..Len(v) : i # j /\ ~HasEdge(i) /\ ~HasEdge(j)
    /\ \E i \in 1..Len(v) : HasEdge(i)

\* C6: the placeholder component is removed by the filter for every input and
\* every b >= 0: no isolated record (cp = 0) is in the returned events table
\* and the placeholder is no row of the returned summary table.
C6_PlaceholderAlwaysRemoved ==
    pc = "done" =>
        /\ 0 \notin DOMAIN cpv
        /\ \A i \in 1..Len(v) : v[i].cp # 0

\* C7: after labeling and before filtering every record carries exactly one
\* cp, and the member sets of the components are disjoint and together are
\* the records passed to create_cpv.
C7_ComponentsPartitionInput ==
    /\ pc \in {"del_e", "partition", "filter"} =>
          /\ Len(v) = Cardinality(extr_data)
          /\ {InputRow(v[i]) : i \in 1..Len(v)} = extr_data
    /\ pc = "filter" =>
          /\ {InputRow(r) : r \in UNION {gv[c] : c \in DOMAIN gv}} = extr_data
          /\ \A c \in DOMAIN gv : \A r \in gv[c] : r.cp = c
          /\ \A c \in DOMAIN gv : gv[c] # {}

\* the nodes were partitioned into the placeholder and another component
C7_Witness ==
    /\ pc = "filter"
    /\ 0 \in DOMAIN gv
    /\ Cardinality(DOMAIN gv) >= 2

\* the adjacency of two input records, whatever their row order
Near(r1, r2) ==
    r1 # r2 /\ Abs(r1.itime - r2.itime) <= 1 /\ MooreNeighbours(r1, r2)

RECURSIVE NearClosure(_, _)
NearClosure(D, S) ==
    LET T == S \cup {r \in D : \E q \in S : Near(q, r)}
    IN  IF T = S THEN S ELSE NearClosure(D, T)

\* the partition of the input that depends on the set of records alone: the
\* connected sets of two or more records, and the isolated records together
InputPartition(D) ==
    LET blocks == {NearClosure(D, {r}) : r \in D}
        singles == {r \in D : NearClosure(D, {r}) = {r}}
    IN  {B \in blocks : Cardinality(B) > 1} \cup (IF singles = {} THEN {} ELSE {singles})

\* the partition the cp column induces
CpPartition ==
    {{InputRow(v[i]) : i \in {j \in 1..Len(v) : v[j].cp = c}} :
        c \in {v[i].cp : i \in 1..Len(v)}}

\* C8: the partition into components is the same for every row order and for
\* every batching of the edge construction: it is the one partition that the
\* set of input records fixes.
C8_PartitionIndependentOfOrderAndBatches ==
    pc = "del_e" => CpPartition = InputPartition(extr_data)

\* labeled after several batches, with an edge from a row of the first batch
\* to a row of a later one and two same-day rows in descending x order
C8_Witness ==
    /\ pc = "del_e"
    /\ n_batches >= 2
    /\ \E p \in e : p[1] <= BatchEnd(1) /\ BatchEnd(1) < p[2]
    /\ \E i \in 1..(Len(v) - 1) : v[i].time = v[i + 1].time /\ v[i].x > v[i + 1].x

\* C9: the filter removes whole components only: the events table keeps
\* exactly the rows whose cp is a retained component, each row as it was, and
\* the summary rows that remain keep their cp and their contents.
C9_FilterRemovesWholeComponents ==
    [][pc = "filter" =>
        /\ DOMAIN cpv' \subseteq DOMAIN cpv
        /\ \A c \in DOMAIN cpv' : cpv'[c] = cpv[c]
        /\ Range(v') = UNION {gv[c] : c \in DOMAIN cpv'}
        /\ Len(v') = Cardinality(Range(v'))
        /\ \A i \in 1..Len(v) : v[i].cp \notin DOMAIN cpv' => v[i] \notin Range(v')]_vars

\* the filter kept one component and removed another
C9_Witness ==
    /\ pc = "done"
    /\ DOMAIN cpv # {}
    /\ DOMAIN gv \ DOMAIN cpv # {}
    /\ v # <<>>

RECURSIVE MagnitudeOfRows(_, _)
MagnitudeOfRows(c, n) ==
    IF n = 0 THEN 0
    ELSE (IF v[n].cp = c THEN v[n].magnitude ELSE 0) + MagnitudeOfRows(c, n - 1)

\* C10: the summary row of every component has timespan = latest - earliest
\* member day + 1, g_ids = the g_id values of its members, n_unique_g_ids =
\* |g_ids| and HWMId_magnitude = the sum of its members' magnitudes.
C10_SummaryRowOfMembers ==
    pc = "filter" =>
        \A c \in DOMAIN cpv :
            LET members == {i \in 1..Len(v) : v[i].cp = c}
                days == {v[i].time : i \in members}
            IN  /\ members # {}
                /\ cpv[c].timespan = SetMax(days) - SetMin(days) + 1
                /\ cpv[c].g_ids = {v[i].g_id : i \in members}
                /\ cpv[c].n_unique_g_ids = Cardinality(cpv[c].g_ids)
                /\ cpv[c].HWMId_magnitude = MagnitudeOfRows(c, Len(v))

\* a component of several records on several days and cells whose magnitudes
\* add up to more than any one of them
C10_Witness ==
    /\ pc = "filter"
    /\ \E c \in DOMAIN cpv :
          /\ cpv[c].timespan >= 2
          /\ cpv[c].n_unique_g_ids >= 2
          /\ cpv[c].HWMId_magnitude > MaxMag

\* ------------------------------------------- thresholds and detection ----
\* the thresholds table is complete
ThresholdsDone == d_pc \in {"merge", "detect", "done"}

ThreshKey(x, d) == <<x, 0, d>>

\* the 31 days centred on day d of the 365-day cycle: d - 15 .. d + 15
CenteredDays(d) ==
    {((d - 1 + k + LastDay) % LastDay) + 1 : k \in (0 - WindowTail)..WindowTail}

\* the daily records of cell x that fall on one of the days
SamplesOn(x, days) == {r \in vt : r.x = x /\ r.ytime \in days}

\* the threshold of cell x and day d is the 99th percentile of the samples on
\* the days, and is missing when there are none
ThresholdFrom(x, d, days) ==
    IF SamplesOn(x, days) = {} THEN ThreshKey(x, d) \notin DOMAIN tmp2
    ELSE /\ ThreshKey(x, d) \in DOMAIN tmp2
         /\ tmp2[ThreshKey(x, d)] = Percentile100(SortedT2m(SamplesOn(x, days)), ThreshPct)

\* C11: for every cell and every day d in 1..365 the threshold is the 99th
\* percentile of the cell's samples, over all years, whose day of the year
\* lies in the 31-day window d - 15 .. d + 15 (wrapping across the year end).
C11_ThresholdFromCenteredWindow ==
    ThresholdsDone =>
        \A x \in 0..MaxCell : \A d \in 1..LastDay :
            ThresholdFrom(x, d, CenteredDays(d))

\* the window of day 365 as the loop builds it
WindowOf365 == Window(LastDay - 1)

\* a window of fewer than 31 days around day 366: lo days before it, hi after
OwnWindow(lo, hi) == ((LoopLen - lo)..LoopLen) \cup (1..hi)

Merged(r) ==
    [x |-> r.x, y |-> r.y, year |-> r.year, ytime |-> r.ytime, t2m |-> r.t2m,
     thresh |-> tmp2[<<r.x, r.y, r.ytime>>]]

\* C13: a daily record is in the extreme dataset exactly when its temperature
\* is greater than or equal to the threshold of its own cell and day of year
\* (equality is extreme), and nothing else is in the extreme dataset.
C13_ExtremeIffAtOrAboveThreshold ==
    d_pc = "done" =>
        /\ \A r \in vt :
              (\E q \in extr : q.x = r.x /\ q.y = r.y /\ q.year = r.year
                                /\ q.ytime = r.ytime /\ q.t2m = r.t2m)
              <=> /\ <<r.x, r.y, r.ytime>> \in DOMAIN tmp2
                  /\ 100 * r.t2m >= tmp2[<<r.x, r.y, r.ytime>>]
        /\ \A q \in extr :
              /\ \E r \in vt : <<r.x, r.y, r.ytime>> \in DOMAIN tmp2 /\ q = Merged(r)
              /\ 100 * q.t2m >= q.thresh

\* one record exactly at its threshold is extreme while another, below its
\* threshold, is left out
C13_Witness ==
    /\ d_pc = "done"
    /\ \E q \in extr : 100 * q.t2m = q.thresh
    /\ \E r \in result : 100 * r.t2m < r.thresh /\ r \notin extr

\* C17: when the pool of a record's cell and day holds fewer samples than the
\* minimum (taken here as small as it can be, one sample), the run stops
\* instead of going on to the detection: no record is dropped for want of a
\* threshold.
C17_EmptyPoolStopsTheRun ==
    d_pc \in {"detect", "done"} =>
        \A r \in vt : <<r.x, r.y, r.ytime>> \in DOMAIN tmp2

\* ------------------------------------------------------ magnitudes ----
\* calc_mag has run, with or without an exception
MagDone == m_pc \in {"done", "raised"}

C15_DegenerateCellHasZeroMagnitude ==
    (MagDone /\ rex.t2m_amax_perc75 = rex.t2m_amax_perc25) =>
        magnitude = Float(0, 1)

\* ----------------------------------------------------------- itime ----
\* C16: the stored itime is a dense day index: for any two extreme records
\* the difference of their itime values is the number of calendar days
\* between their dates (so itime grows with the date and no value is shared
\* by two dates), however long the record is.
C16_ItimeIsDenseDayIndex ==
    i_pc = "done" =>
        \A ta, tb \in extr_time : itime[ta] - itime[tb] = ta - tb

\* ------------------------------------------------------------ g_id ----
\* C18: two records have the same g_id exactly when they have the same
\* (x, y), and n_unique_g_ids of a component is the number of distinct
\* (x, y) cells of its records.
C18_GIdNamesTheCell ==
    /\ \A r1, r2 \in extr_data :
          r1.g_id = r2.g_id <=> (r1.x = r2.x /\ r1.y = r2.y)
    /\ pc \in {"filter", "done"} =>
          \A c \in DOMAIN cpv :
              cpv[c].n_unique_g_ids = Cardinality({<<r.x, r.y>> : r \in gv[c]})

\* a component that visits one cell on two days and another cell as well
C18_Witness ==
    /\ pc = "filter"
    /\ \E c \in DOMAIN cpv :
          /\ c # 0
          /\ cpv[c].n_unique_g_ids >= 2
          /\ cpv[c].n_nodes > cpv[c].n_unique_g_ids
          /\ \E r1, r2 \in gv[c] : r1 # r2 /\ r1.g_id = r2.g_id

\* ---------------------------------------------------------- seasons ----
\* C19: every heatwave, whatever its mean ytime in [1, 366] (whole or not),
\* gets exactly one of the seasons 0..3 and never -1; a mean of 335 or more
\* or of 59 or less gives 0, 60-151 gives 1, 152-243 gives 2, 244-334 gives 3.
C19_EveryHeatwaveHasASeason ==
    s_pc = "done" =>
        /\ F_season \in 0..3
        /\ (ytime_mean.sum >= 335 * ytime_mean.n
               \/ ytime_mean.sum <= 59 * ytime_mean.n) => F_season = 0
        /\ (60 * ytime_mean.n <= ytime_mean.sum
               /\ ytime_mean.sum <= 151 * ytime_mean.n) => F_season = 1
        /\ (152 * ytime_mean.n <= ytime_mean.sum
               /\ ytime_mean.sum <= 243 * ytime_mean.n) => F_season = 2
        /\ (244 * ytime_mean.n <= ytime_mean.sum
               /\ ytime_mean.sum <= 334 * ytime_mean.n) => F_season = 3

\* ------------------------------------------------ footprint overlap ----
\* the fractions a and b are the same number
SameFraction(p, q) == p.num * q.den = q.num * p.den

\* the strength of the same pair taken the other way round
StrengthOfReversedPair ==
    cp_intersection_strength(NUniqueGIds(g_ids_t), NUniqueGIds(g_ids_s),
                             cp_node_intersection(g_ids_t, g_ids_s))

\* C20: the intersection strength of two heatwaves is |g_ids_i /\ g_ids_j|
\* divided by min(|g_ids_i|, |g_ids_j|); it does not depend on the order of
\* the two, lies in [0, 1], is 1 exactly when one footprint is a subset of
\* the other and 0 exactly when the footprints are disjoint.
C20_StrengthIsOverlapOverSmaller ==
    o_pc = "done" =>
        LET strength == intsec.intsec_strength
            smaller == IF Cardinality(g_ids_s) <= Cardinality(g_ids_t)
                       THEN Cardinality(g_ids_s) ELSE Cardinality(g_ids_t)
        IN  /\ strength.den > 0
            /\ SameFraction(strength,
                            [num |-> Cardinality(g_ids_s \cap g_ids_t), den |-> smaller])
            /\ SameFraction(strength, StrengthOfReversedPair)
            /\ 0 <= strength.num /\ strength.num <= strength.den
            /\ strength.num = strength.den
                  <=> (g_ids_s \subseteq g_ids_t \/ g_ids_t \subseteq g_ids_s)
            /\ strength.num = 0 <=> g_ids_s \cap g_ids_t = {}

\* two footprints of different sizes that overlap without either holding the
\* other: the strength is strictly between 0 and 1
C20_Witness ==
    /\ o_pc = "done"
    /\ Cardinality(g_ids_s) < Cardinality(g_ids_t)
    /\ 0 < intsec.intsec_strength.num
    /\ intsec.intsec_strength.num < intsec.intsec_strength.den

\* ------------------------------------------------- order of the stages ----
\* every row of g.v carries its component label
Labelled == v # <<>> /\ \A i \in 1..Len(v) : "cp" \in DOMAIN v[i]

\* the edges of the whole nodes table, whatever the batches
EdgesOfWholeTable ==
    {p \in (1..Len(v)) \X (1..Len(v)) :
        /\ p[1] < p[2]
        /\ Abs(v[p[1]].itime - v[p[2]].itime) <= FtThreshold
        /\ MooreNeighbours(v[p[1]], v[p[2]])}

\* C24: the stages of create_cpv run in strict order: the labels are assigned
\* only when the edges of the whole table (all batches) are there, the edge
\* table is discarded only when the labels are attached, and aggregation and
\* filtering run only after the labelling, when the edge table is gone.
C24_StagesRunInOrder ==
    [][/\ (~Labelled /\ Labelled') =>
              (has_e /\ from_pos = Len(v) /\ e = EdgesOfWholeTable)
       /\ (has_e /\ ~has_e') => Labelled
       /\ (gv' # gv \/ cpv' # cpv) => (Labelled /\ ~has_e /\ e = {})]_vars

\* the supernodes were built from a table whose edges came in several batches
C24_Witness ==
    /\ pc = "filter"
    /\ n_batches >= 2
    /\ Labelled
    /\ ~has_e
    /\ Cardinality(DOMAIN cpv) >= 2

\* ------------------------------------------------- days of a component ----
\* C27: for every component other than the placeholder the itime values of
\* its records are consecutive days without a gap, and its timespan is the
\* number of distinct days it has records on and is itime_max - itime_min + 1.
C27_ComponentDaysAreConsecutive ==
    pc = "filter" =>
        \A c \in DOMAIN cpv \ {0} :
            LET itimes == {r.itime : r \in gv[c]}
                days == {r.time : r \in gv[c]}
            IN  /\ itimes = SetMin(itimes)..SetMax(itimes)
                /\ cpv[c].timespan = Cardinality(days)
                /\ cpv[c].timespan = cpv[c].itime_amax - cpv[c].itime_amin + 1

\* ------------------------------------------------ windows of the loop ----
\* C28: samples of day 366 are in no threshold pool, each of the 366 windows
\* holds exactly 31 distinct days of the year, all in 1..365, and the
\* threshold of day 366 of a cell is the threshold of its day 1.
C28_WindowsSkipDay366 ==
    ThresholdsDone =>
        /\ \A i \in 0..(LoopLen - 1) :
              /\ Window(i) \subseteq 1..LastDay
              /\ Cardinality(Window(i)) = WindowLen
              /\ \A x \in 0..MaxCell :
                    \A r \in Pool(vt, x, 0, i) \cup Pool(g_t, x, 0, i) : r.ytime # LoopLen
        /\ \A x \in 0..MaxCell :
              IF ThreshKey(x, 1) \in DOMAIN tmp2
              THEN /\ ThreshKey(x, LoopLen) \in DOMAIN tmp2
                   /\ tmp2[ThreshKey(x, LoopLen)] = tmp2[ThreshKey(x, 1)]
              ELSE ThreshKey(x, LoopLen) \notin DOMAIN tmp2

\* a cell with a sample on day 366 that is hotter than the threshold of day
\* 366, which the cell shares with day 1
C28_Witness ==
    /\ ThresholdsDone
    /\ \E r \in vt :
          /\ r.ytime = LoopLen
          /\ ThreshKey(r.x, 1) \in DOMAIN tmp2
          /\ ThreshKey(r.x, LoopLen) \in DOMAIN tmp2
          /\ 100 * r.t2m > tmp2[ThreshKey(r.x, LoopLen)]

\* ------------------------------------------------------ re-partition ----
\* C29: partitioning the filtered events table by cp again gives exactly the
\* components create_cpv retained, each with the time_min, time_max,
\* timespan, g_ids, n_unique_g_ids and magnitude sum computed before the
\* filtering.
C29_RepartitionGivesRetainedSupernodes ==
    pc = "done" =>
        /\ DOMAIN ClusteringSupernodes(v) = DOMAIN cpv
        /\ \A c \in DOMAIN cpv :
              LET again == ClusteringSupernodes(v)[c]
              IN  /\ again.time_amin = cpv[c].time_amin
                  /\ again.time_amax = cpv[c].time_amax
                  /\ again.timespan = cpv[c].timespan
                  /\ again.g_ids = cpv[c].g_ids
                  /\ again.n_unique_g_ids = cpv[c].n_unique_g_ids
                  /\ again.HWMId_magnitude = cpv[c].HWMId_magnitude

\* a retained component of three or more records next to a discarded one
C29_Witness ==
    /\ pc = "done"
    /\ DOMAIN gv \ DOMAIN cpv # {}
    /\ \E c \in DOMAIN cpv :
          /\ c # 0
          /\ cpv[c].n_nodes >= 3
          /\ Cardinality({i \in 1..Len(v) : v[i].cp = c}) = cpv[c].n_nodes

\* ------------------------------------------- seasons of seasonal_clusters ----
\* C30: assign_season gives every day of the year 1..366 exactly one season
\* in 1..4, so every event record is in exactly one of the four per-season
\* clusterings.
C30_EveryDayInOneSeasonalClustering ==
    /\ k_pc \in {"loop", "done"} => (~season.isnan /\ season.value \in 1..4)
    /\ k_pc = "done" => Cardinality(season_files) = 1

\* ------------------------------------- seasons of events and heatwaves ----
\* C25: in the outputs of the seasonal analysis every event record has the
\* F_season of its heatwave, and the per-season events table that holds a
\* record is the one whose summary table holds the heatwave's row.
C25_EventsShareTheSeasonOfTheirHeatwave ==
    t_pc = "done" =>
        \A r \in events :
            /\ gv_F_season[r] = cpv_F_season
            /\ \A s \in DOMAIN gv_files : r \in gv_files[s] => s \in cpv_files

\* ---------------------------------------- heatwaves of seasonal clustering ----
\* the seasons whose run has the heatwave c in its table of heatwaves
SeasonsClustering(c) == {s \in DOMAIN q_cpv : c \in DOMAIN q_cpv[s]}

\* C26: a heatwave enters the seasonal sub-clustering whole: in the run that
\* has it, its g_ids are the g_ids of all its records in the events table;
\* and once the script has run for every season, it is in exactly one run.
C26_HeatwaveEntersOneSeasonWhole ==
    \A c \in {r.cp : r \in q_gv} :
        /\ \A s \in SeasonsClustering(c) :
              q_cpv[s][c].g_ids = {r.g_id : r \in {x \in q_gv : x.cp = c}}
        /\ Cardinality(SeasonsClustering(c)) <= 1
        /\ (DOMAIN q_cpv = SeasonCodes) => Cardinality(SeasonsClustering(c)) = 1

\* ------------------------------------------------ UPGMA sub-clustering ----
\* the labels in use
LabelsInUse(T) == {T[c] : c \in DOMAIN T}

\* C21: for a requested count u with 1 <= u <= M, the sub-clustering gives the
\* M heatwaves of the family exactly u distinct labels, tied distances or not.
C21_ExactlyURequestedLabels ==
    (u_pc \in {"relabel", "save", "done"} /\ no_clusters <= Len(fam_g_ids)) =>
        Cardinality(LabelsInUse(F_upgma)) = no_clusters

\* C22: when u exceeds the number M of heatwaves the sub-clustering fails:
\* it goes no further than linkage and writes no labels.
C22_TooManyClustersIsAnError ==
    no_clusters > Len(fam_g_ids) =>
        (u_pc \in {"linkage", "fcluster", "failed"} /\ F_upgma = <<>>)

\* C23: the relabeling by size leaves labels 0..n-1 in use, the count of
\* label i is at least that of label i+1, and two heatwaves share a label
\* after it exactly if they shared one before.
C23_RelabelingOrdersLabelsBySize ==
    [][(u_pc = "relabel" /\ u_pc' = "save") =>
          /\ LabelsInUse(F_upgma') = 0..(Cardinality(LabelsInUse(F_upgma)) - 1)
          /\ \A j \in LabelsInUse(F_upgma') :
                (j + 1) \in LabelsInUse(F_upgma') =>
                    ValueCount(F_upgma', j) >= ValueCount(F_upgma', j + 1)
          /\ \A s, t \in DOMAIN F_upgma :
                (F_upgma'[s] = F_upgma'[t]) <=> (F_upgma[s] = F_upgma[t])]_vars

\* a family of three was cut in two and relabeled: the pair of heatwaves has
\* label 0, the single heatwave beside them label 1
C23_Witness ==
    /\ u_pc = "save"
    /\ ValueCount(F_upgma, 0) = 2
    /\ ValueCount(F_upgma, 1) = 1
    /\ no_clusters = 2

====
